---- MODULE Spec2Model ----
(***************************************************************************)
(* Model of the wellness mini app: the Supabase adapter (supabase_db.py)   *)
(* and the request handlers and in-memory USER_DATA of mini_app_server.py. *)
(*                                                                         *)
(* Conventions.  A Python str is a sequence of one-character strings.  A   *)
(* nullable value is a sequence of length 0 (None / SQL NULL) or 1.  A     *)
(* call that may raise returns a record with a field "raised".  A float is *)
(* an integer here (every value of the model is integral); a ratio is the  *)
(* pair <<numerator, denominator>>.  A calendar date is a proleptic        *)
(* ordinal; isoformat() turns it into <<year, month, day>>, whose          *)
(* lexicographic order is the order of the 'YYYY-MM-DD' strings.           *)
(***************************************************************************)
EXTENDS Integers, Sequences, FiniteSets, TLC

VARIABLES store, today, USER_DATA, response

vars == <<store, today, USER_DATA, response>>

(* ------------------------------ bounds --------------------------------- *)

\* Largest day count a history request asks for explicitly.
MaxDays == 2

(* --------------------------- Python built-ins --------------------------- *)

None == <<>>

Some(v) == <<v>>

Digits == <<"0", "1", "2", "3", "4", "5", "6", "7", "8", "9">>

IsDigit(c) == \E i \in 1..10 : Digits[i] = c

DigitVal(c) == (CHOOSE i \in 1..10 : Digits[i] = c) - 1

RECURSIVE DigitsVal(_)
DigitsVal(s) ==
    IF s = <<>> THEN 0
    ELSE 10 * DigitsVal(SubSeq(s, 1, Len(s) - 1)) + DigitVal(s[Len(s)])

AllDigits(s) == s # <<>> /\ \A i \in 1..Len(s) : IsDigit(s[i])

\* int(s) for a str s: an optional sign followed by decimal digits, else
\* ValueError.
ParseInt(s) ==
    IF AllDigits(s) THEN [raised |-> FALSE, val |-> DigitsVal(s)]
    ELSE IF s # <<>> /\ s[1] = "-" /\ AllDigits(Tail(s))
        THEN [raised |-> FALSE, val |-> 0 - DigitsVal(Tail(s))]
    ELSE IF s # <<>> /\ s[1] = "+" /\ AllDigits(Tail(s))
        THEN [raised |-> FALSE, val |-> DigitsVal(Tail(s))]
    ELSE [raised |-> TRUE, val |-> 0]

RECURSIVE NatStr(_)
NatStr(n) ==
    IF n < 10 THEN <<Digits[n + 1]>>
    ELSE NatStr(n \div 10) \o <<Digits[(n % 10) + 1]>>

\* str(n) for an int n.
Str(n) == IF n < 0 THEN <<"-">> \o NatStr(0 - n) ELSE NatStr(n)

Max(a, b) == IF a >= b THEN a ELSE b

\* range(n) as the sequence 0, 1, ..., n-1 (empty when n <= 0).
Range(n) == [k \in 1..Max(0, n) |-> k - 1]

RECURSIVE SumSeq(_)
SumSeq(s) == IF s = <<>> THEN 0 ELSE Head(s) + SumSeq(Tail(s))

\* float(x): TypeError on None.
FloatRaises(x) == x = None

Float(x) == x[1]

\* float(x or 0)
FloatOrZero(x) == IF x = None THEN 0 ELSE x[1]

(* ------------------------------ datetime -------------------------------- *)

IsLeap(y) == (y % 4 = 0 /\ y % 100 # 0) \/ y % 400 = 0

DaysInMonth(y, m) ==
    IF m = 2 THEN (IF IsLeap(y) THEN 29 ELSE 28)
    ELSE IF m \in {4, 6, 9, 11} THEN 30 ELSE 31

\* The epoch of the model's ordinals: ordinal 0 is 2024-02-20.
EpochDate == <<2024, 2, 20>>

NextDate(d) ==
    IF d[3] < DaysInMonth(d[1], d[2]) THEN <<d[1], d[2], d[3] + 1>>
    ELSE IF d[2] < 12 THEN <<d[1], d[2] + 1, 1>>
    ELSE <<d[1] + 1, 1, 1>>

RECURSIVE FromOrdinal(_)
FromOrdinal(n) == IF n = 0 THEN EpochDate ELSE NextDate(FromOrdinal(n - 1))

\* date.isoformat(): the fields of 'YYYY-MM-DD'.
IsoFormat(ordinal) == FromOrdinal(ordinal)

\* date - timedelta(days=k)
DateMinusDays(ordinal, k) == ordinal - k

\* The UTC date of the model's clock, as an ordinal: 2024-03-01.
Today0 == 10

(* ------------------------------ the store ------------------------------- *)

\* Numeric ids of the users of the model: the first may have a users row
\* and summary rows and has logs, the second has no row in any table, the
\* third has logs only.
StoreUsers == <<7, 42, 8>>

UserWithRows == StoreUsers[1]

OtherUser == StoreUsers[2]

LogOnlyUser == StoreUsers[3]

TargetRow(c, p, f, cb) ==
    [calorie_target |-> c, protein_target_g |-> p, fat_target_g |-> f,
     carbs_target_g |-> cb]

\* The engagement columns of a users row.
Counters(streak, days_since, coins) ==
    [current_streak |-> streak, days_since_last_meal_log |-> days_since,
     coins |-> coins]

\* The engagement columns the users row holding the targets t holds: all
\* three present, or one of them NULL.
CountersOf(t) ==
    CASE t.calorie_target = Some(2500) -> Counters(Some(5), Some(2), Some(120))
      [] t.calorie_target = Some(1800) -> Counters(None, Some(3), Some(40))
      [] t.calorie_target = Some(0)    -> Counters(Some(4), None, Some(0))
      [] OTHER                         -> Counters(Some(1), Some(1), None)

UsersRow(uid, t) ==
    [user_id |-> uid, calorie_target |-> t.calorie_target,
     protein_target_g |-> t.protein_target_g, fat_target_g |-> t.fat_target_g,
     carbs_target_g |-> t.carbs_target_g,
     current_streak |-> CountersOf(t).current_streak,
     days_since_last_meal_log |-> CountersOf(t).days_since_last_meal_log,
     coins |-> CountersOf(t).coins]

\* Target rows a users row may hold: the scenario's targets, a zero calorie
\* target, a NULL calorie target.
ProfileTargets ==
    { TargetRow(Some(2500), Some(200), Some(80), Some(300)),
      TargetRow(Some(1800), Some(120), Some(60), Some(220)),
      TargetRow(Some(0), Some(200), Some(80), Some(300)),
      TargetRow(None, Some(200), Some(80), Some(300)) }

UsersTables ==
    { <<>> } \cup { <<UsersRow(UserWithRows, t)>> : t \in ProfileTargets }

Totals(c, p, cb, f) ==
    [total_calories |-> c, total_protein_g |-> p, total_carbs_g |-> cb,
     total_fat_g |-> f]

SummaryRow(uid, date, t, meals) ==
    [user_telegram_id |-> uid, date |-> IsoFormat(date),
     total_calories |-> t.total_calories, total_protein_g |-> t.total_protein_g,
     total_carbs_g |-> t.total_carbs_g, total_fat_g |-> t.total_fat_g,
     meals_logged_count |-> meals]

ScenarioTotals == Totals(Some(301), Some(39), Some(49), Some(19))

OverTotals == Totals(Some(3000), Some(250), Some(350), Some(90))

NullTotals == Totals(None, Some(39), Some(49), Some(19))

SummaryTables ==
    { <<>>,
      <<SummaryRow(UserWithRows, Today0, ScenarioTotals, Some(1))>>,
      <<SummaryRow(UserWithRows, Today0 - 1, ScenarioTotals, Some(1)),
        SummaryRow(UserWithRows, Today0, OverTotals, Some(3))>>,
      <<SummaryRow(UserWithRows, Today0, NullTotals, Some(1))>> }

LogRow(uid, date, hour, c, p, cb, f) ==
    [user_telegram_id |-> uid, logged_at |-> [date |-> date, hour |-> hour],
     total_calories |-> c, protein_g |-> p, carbs_g |-> cb, fat_g |-> f]

\* The nutrition_logs table: two meals of today (one with a NULL field), one
\* at the first hour of tomorrow, one of another user.
LogTable ==
    <<LogRow(UserWithRows, Today0, 0, Some(301), Some(39), Some(49), Some(19)),
      LogRow(UserWithRows, Today0, 23, Some(100), None, Some(1), Some(1)),
      LogRow(UserWithRows, Today0 + 1, 0, Some(7), Some(7), Some(7), Some(7)),
      LogRow(LogOnlyUser, Today0, 12, Some(5), Some(5), Some(5), Some(5))>>

StoreStates ==
    { [users |-> u, daily_nutrition_summary |-> s, nutrition_logs |-> LogTable] :
        u \in UsersTables, s \in SummaryTables }

Tables == {"users", "daily_nutrition_summary", "nutrition_logs"}

\* The sets of tables whose queries raise while one request is served.
FailChoices == { {} } \cup { {t} : t \in Tables }

(* ------------------------- supabase_db.py ------------------------------- *)

\* The methods class SupabaseMiniApp defines.
SupabaseMiniAppMethods ==
    { "get_user_profile", "get_user_nutrition_targets",
      "get_today_nutrition_summary", "get_nutrition_summary_for_date",
      "get_user_nutrition_data", "populate_sample_daily_data" }

\* table('users').select(...).eq('user_id', uid).execute().data
SelectUsers(st, uid) ==
    SelectSeq(st.users, LAMBDA r : r.user_id = uid)

SelectedTargets(r) ==
    TargetRow(r.calorie_target, r.protein_target_g, r.fat_target_g,
              r.carbs_target_g)

\* The row or None; None too when the query raises.
get_user_profile(st, fail, uid) ==
    IF "users" \in fail THEN None
    ELSE LET data == SelectUsers(st, uid)
         IN  IF data # <<>> THEN Some(SelectedTargets(data[1])) ELSE None

DefaultTargets == TargetRow(Some(2000), Some(150), Some(65), Some(250))

\* The lookups a call with a retry after a failed query would issue.
users_lookups_with_retry(st, fail, uid) ==
    IF "users" \in fail THEN <<"users", "users">> ELSE <<"users">>

\* The queries get_user_profile issues, in order: the one execute() of its
\* try block; neither the empty result nor the except branch issues another.
get_user_profile_queries(st, fail, uid) == <<"users">>

\* The queries get_user_nutrition_targets issues, in order: the one
\* execute() of its try block.
get_user_nutrition_targets_queries(st, fail, uid) == <<"users">>

\* The lookup letting the failure of the query through as the demo targets
\* of the handlers instead of the defaults.
get_user_nutrition_targets_demo(st, fail, uid) ==
    IF "users" \in fail THEN TargetRow(Some(2500), Some(200), Some(80), Some(300))
    ELSE LET data == SelectUsers(st, uid)
         IN  IF data # <<>> THEN SelectedTargets(data[1]) ELSE DefaultTargets

get_user_nutrition_targets(st, fail, uid) ==
    IF "users" \in fail THEN DefaultTargets
    ELSE LET data == SelectUsers(st, uid)
         IN  IF data # <<>> THEN SelectedTargets(data[1]) ELSE DefaultTargets

\* table('daily_nutrition_summary').select(...).eq('user_telegram_id', uid)
\*     .eq('date', target_date.isoformat()).execute().data
SelectSummary(st, uid, target_date) ==
    SelectSeq(st.daily_nutrition_summary,
              LAMBDA r : r.user_telegram_id = uid /\ r.date = IsoFormat(target_date))

\* The raw-log query with the upper end of the day included: logged_at <=
\* the first instant of the next day.
SelectLogsInclusive(st, uid, target_date) ==
    SelectSeq(st.nutrition_logs,
              LAMBDA r : /\ r.user_telegram_id = uid
                         /\ r.logged_at.date * 24 + r.logged_at.hour >= target_date * 24
                         /\ r.logged_at.date * 24 + r.logged_at.hour
                                <= (target_date + 1) * 24)

\* table('nutrition_logs').select(...).eq('user_telegram_id', uid)
\*     .gte('logged_at', d).lt('logged_at', d + 1 day).execute().data
SelectLogs(st, uid, target_date) ==
    SelectSeq(st.nutrition_logs,
              LAMBDA r : /\ r.user_telegram_id = uid
                         /\ r.logged_at.date * 24 + r.logged_at.hour >= target_date * 24
                         /\ r.logged_at.date * 24 + r.logged_at.hour
                                < DateMinusDays(target_date, 0 - 1) * 24)

ZeroConsumption ==
    [total_calories |-> 0, total_protein_g |-> 0, total_carbs_g |-> 0,
     total_fat_g |-> 0]

SumField(logs, field) ==
    SumSeq([i \in 1..Len(logs) |-> FloatOrZero(logs[i][field])])

\* The lookup answering a failed query with the demo consumption.
get_nutrition_summary_for_date_demo(st, fail, uid, target_date) ==
    LET demo == [total_calories |-> 301, total_protein_g |-> 39,
                 total_carbs_g |-> 49, total_fat_g |-> 19]
    IN
    IF "daily_nutrition_summary" \in fail THEN demo
    ELSE LET data == SelectSummary(st, uid, target_date)
         IN  IF data # <<>>
             THEN [total_calories |-> FloatOrZero(data[1].total_calories),
                   total_protein_g |-> FloatOrZero(data[1].total_protein_g),
                   total_carbs_g |-> FloatOrZero(data[1].total_carbs_g),
                   total_fat_g |-> FloatOrZero(data[1].total_fat_g)]
             ELSE IF "nutrition_logs" \in fail THEN demo
             ELSE LET logs == SelectLogs(st, uid, target_date)
                  IN  [total_calories |-> SumField(logs, "total_calories"),
                       total_protein_g |-> SumField(logs, "protein_g"),
                       total_carbs_g |-> SumField(logs, "carbs_g"),
                       total_fat_g |-> SumField(logs, "fat_g")]

\* The lookup summing the raw logs of the day whenever there are any, and
\* reading the summary row only for a day without logs.
get_nutrition_summary_for_date_logs_first(st, fail, uid, target_date) ==
    IF "daily_nutrition_summary" \in fail \/ "nutrition_logs" \in fail THEN ZeroConsumption
    ELSE LET data == SelectSummary(st, uid, target_date)
             logs == SelectLogs(st, uid, target_date)
         IN  IF logs = <<>> /\ data # <<>>
             THEN [total_calories |-> FloatOrZero(data[1].total_calories),
                   total_protein_g |-> FloatOrZero(data[1].total_protein_g),
                   total_carbs_g |-> FloatOrZero(data[1].total_carbs_g),
                   total_fat_g |-> FloatOrZero(data[1].total_fat_g)]
             ELSE [total_calories |-> SumField(logs, "total_calories"),
                   total_protein_g |-> SumField(logs, "protein_g"),
                   total_carbs_g |-> SumField(logs, "carbs_g"),
                   total_fat_g |-> SumField(logs, "fat_g")]

\* The tables get_nutrition_summary_for_date queries, in order: the raw logs
\* only in the else branch, after a summary query that found no row.
summary_queries(st, fail, uid, target_date) ==
    IF "daily_nutrition_summary" \in fail THEN <<"daily_nutrition_summary">>
    ELSE IF SelectSummary(st, uid, target_date) # <<>>
         THEN <<"daily_nutrition_summary">>
         ELSE <<"daily_nutrition_summary", "nutrition_logs">>

get_nutrition_summary_for_date(st, fail, uid, target_date) ==
    IF "daily_nutrition_summary" \in fail THEN ZeroConsumption
    ELSE LET data == SelectSummary(st, uid, target_date)
         IN  IF data # <<>> /\ Len(data) > 0
             THEN [total_calories |-> FloatOrZero(data[1].total_calories),
                   total_protein_g |-> FloatOrZero(data[1].total_protein_g),
                   total_carbs_g |-> FloatOrZero(data[1].total_carbs_g),
                   total_fat_g |-> FloatOrZero(data[1].total_fat_g)]
             ELSE IF "nutrition_logs" \in fail THEN ZeroConsumption
             ELSE LET logs == SelectLogs(st, uid, target_date)
                  IN  [total_calories |-> SumField(logs, "total_calories"),
                       total_protein_g |-> SumField(logs, "protein_g"),
                       total_carbs_g |-> SumField(logs, "carbs_g"),
                       total_fat_g |-> SumField(logs, "fat_g")]

\* The summary of the day before the given one.
get_yesterday_nutrition_summary(st, fail, uid, now) ==
    get_nutrition_summary_for_date(st, fail, uid, DateMinusDays(now, 1))

get_today_nutrition_summary(st, fail, uid, now) ==
    get_nutrition_summary_for_date(st, fail, uid, now)

\* One macro of the remaining view: {'value': ..., 'total': ...}.
View(value, total) == [value |-> value, total |-> total]

\* Remaining without the floor at 0.
RemainingNoFloor(target, consumed) == target - consumed

\* max(0, target - consumed)
Remaining(target, consumed) == Max(0, target - consumed)

\* The values the adapter returns when its calculation raises.
AdapterErrorData ==
    [calories |-> View(1500, 2000), protein |-> View(100, 150),
     carbs |-> View(200, 250), fats |-> View(50, 65)]

\* SupabaseMiniApp.get_user_nutrition_data: a NULL target makes the
\* subtraction raise TypeError, which the method answers with fixed values.
supabase_get_user_nutrition_data(st, fail, uid, now) ==
    LET targets == get_user_nutrition_targets(st, fail, uid)
        consumed == get_today_nutrition_summary(st, fail, uid, now)
    IN  IF \/ targets.calorie_target = None \/ targets.protein_target_g = None
           \/ targets.carbs_target_g = None \/ targets.fat_target_g = None
        THEN AdapterErrorData
        ELSE [calories |-> View(Remaining(targets.calorie_target[1], consumed.total_calories),
                                targets.calorie_target[1]),
              protein |-> View(Remaining(targets.protein_target_g[1], consumed.total_protein_g),
                               targets.protein_target_g[1]),
              carbs |-> View(Remaining(targets.carbs_target_g[1], consumed.total_carbs_g),
                             targets.carbs_target_g[1]),
              fats |-> View(Remaining(targets.fat_target_g[1], consumed.total_fat_g),
                            targets.fat_target_g[1])]

(* ----------------------- mini_app_server.py ----------------------------- *)

\* 'user_123', the id the handlers use when the request names none.
DemoAlias == <<"u", "s", "e", "r", "_", "1", "2", "3">>

\* d.get(k, default) for a dict d.
Get(d, k, default) == IF k \in DOMAIN d THEN d[k] ELSE default

\* Truth value of an optional dict: None and {} are false.
Truthy(d) == d # None /\ DOMAIN d[1] # {}

\* a / b for b # 0, as the ratio <<a, b>>.
Ratio(a, b) == <<a, b>>

\* The ratio without the cap at 1.0.
MinOneNoCap(r) == r

\* min(1.0, r) for a ratio r with a positive denominator.
MinOne(r) == IF r[1] > r[2] THEN <<1, 1>> ELSE r

Raised == [raised |-> TRUE]

\* get_user_nutrition_data without the check of the four targets.
get_user_nutrition_data_unchecked(st, fail, user_id, now) ==
    LET id == ParseInt(user_id) IN
    IF id.raised THEN Raised
    ELSE
    LET user_profile == get_user_profile(st, fail, id.val) IN
    IF user_profile = None THEN Raised
    ELSE
    LET p == user_profile[1] IN
    IF \/ FloatRaises(p.calorie_target) \/ FloatRaises(p.protein_target_g)
       \/ FloatRaises(p.carbs_target_g) \/ FloatRaises(p.fat_target_g)
    THEN Raised
    ELSE
    LET today_nutrition == get_today_nutrition_summary(st, fail, id.val, now) IN
    [raised |-> FALSE,
     data |->
       [calories |-> View(Remaining(Float(p.calorie_target), today_nutrition.total_calories),
                          Float(p.calorie_target)),
        protein |-> View(Remaining(Float(p.protein_target_g), today_nutrition.total_protein_g),
                         Float(p.protein_target_g)),
        carbs |-> View(Remaining(Float(p.carbs_target_g), today_nutrition.total_carbs_g),
                       Float(p.carbs_target_g)),
        fats |-> View(Remaining(Float(p.fat_target_g), today_nutrition.total_fat_g),
                      Float(p.fat_target_g))]]

\* NutritionDataHandler.get_user_nutrition_data
get_user_nutrition_data(st, fail, user_id, now) ==
    LET id == ParseInt(user_id) IN
    IF id.raised THEN Raised
    ELSE
    LET user_profile == get_user_profile(st, fail, id.val) IN
    IF user_profile = None THEN Raised
    ELSE
    LET p == user_profile[1] IN
    IF \/ FloatRaises(p.calorie_target) \/ FloatRaises(p.protein_target_g)
       \/ FloatRaises(p.carbs_target_g) \/ FloatRaises(p.fat_target_g)
    THEN Raised
    ELSE
    LET daily_calories == Float(p.calorie_target)
        daily_protein == Float(p.protein_target_g)
        daily_carbs == Float(p.carbs_target_g)
        daily_fats == Float(p.fat_target_g)
    IN
    IF ~(daily_calories # 0 /\ daily_protein # 0 /\ daily_carbs # 0 /\ daily_fats # 0)
    THEN Raised
    ELSE
    LET today_nutrition == get_today_nutrition_summary(st, fail, id.val, now) IN
    [raised |-> FALSE,
     data |->
       [calories |-> View(Remaining(daily_calories, today_nutrition.total_calories),
                          daily_calories),
        protein |-> View(Remaining(daily_protein, today_nutrition.total_protein_g),
                         daily_protein),
        carbs |-> View(Remaining(daily_carbs, today_nutrition.total_carbs_g),
                       daily_carbs),
        fats |-> View(Remaining(daily_fats, today_nutrition.total_fat_g),
                      daily_fats)]]

Macros == {"calories", "protein", "carbs", "fats"}

\* RequestHandler.inject_user_data: the values spliced into the page.
inject_user_data(user_data) ==
    IF \E m \in Macros : user_data[m].total = 0 THEN Raised
    ELSE [raised |-> FALSE,
          remaining |-> [m \in Macros |-> user_data[m].value],
          goals |-> [m \in Macros |-> user_data[m].total],
          consumed |-> [m \in Macros |-> user_data[m].total - user_data[m].value],
          progress |-> [m \in Macros |->
                          Ratio(user_data[m].total - user_data[m].value,
                                user_data[m].total)]]

\* RequestHandler.handle_nutrition_dashboard, with do_GET's error handling.
\* injected is the record inject_user_data was called with, None when the
\* request ended before the call.
handle_nutrition_dashboard(st, fail, q_user_id, template, now) ==
    IF q_user_id = None \/ q_user_id[1] = <<>>
    THEN [op |-> "dashboard", status |-> 400]
    ELSE
    LET user_data == get_user_nutrition_data(st, fail, q_user_id[1], now) IN
    IF user_data.raised
    THEN [op |-> "dashboard", status |-> 500, user_id |-> q_user_id[1], fail |-> fail,
          template |-> template, injected |-> None]
    ELSE IF ~template
    THEN [op |-> "dashboard", status |-> 500, user_id |-> q_user_id[1], fail |-> fail,
          template |-> template, injected |-> None]
    ELSE
    LET page == inject_user_data(user_data.data) IN
    IF page.raised
    THEN [op |-> "dashboard", status |-> 500, user_id |-> q_user_id[1], fail |-> fail,
          template |-> template, injected |-> Some(user_data.data)]
    ELSE [op |-> "dashboard", status |-> 200, user_id |-> q_user_id[1],
          fail |-> fail, template |-> template, injected |-> Some(user_data.data),
          remaining |-> page.remaining, goals |-> page.goals,
          consumed |-> page.consumed, progress |-> page.progress]

\* The batch of pre-aggregated summaries of the window [now - (days - 1), now]
\* for one user, as the history builder expects it from the store adapter.
get_recent_daily_summaries(st, fail, uid, days, now) ==
    IF "daily_nutrition_summary" \in fail THEN Raised
    ELSE LET rows == SelectSeq(st.daily_nutrition_summary,
                        LAMBDA r : /\ r.user_telegram_id = uid
                                   /\ \E k \in 0..(days - 1) :
                                         r.date = IsoFormat(DateMinusDays(now, k)))
         IN  [raised |-> FALSE,
              data |-> [j \in 1..Len(rows) |->
                          [date |-> rows[j].date,
                           total_calories |-> FloatOrZero(rows[j].total_calories),
                           total_protein_g |-> FloatOrZero(rows[j].total_protein_g),
                           total_carbs_g |-> FloatOrZero(rows[j].total_carbs_g),
                           total_fat_g |-> FloatOrZero(rows[j].total_fat_g),
                           meals_logged_count |-> FloatOrZero(rows[j].meals_logged_count)]]]

\* One record of the history series.
DayData(date_str, c, p, cb, f) ==
    [date |-> date_str, calories |-> c, protein |-> p, carbs |-> cb, fats |-> f]

\* The loop of get_historical_nutrition_data over range(days): the date of
\* step i is today - (days - 1 - i); a date found in the lookup carries that
\* summary's totals, any other date zeros.
HistoricalData(recent_summaries, days, now) ==
    [k \in 1..Max(0, days) |->
        LET i == Range(days)[k]
            date_str == IsoFormat(DateMinusDays(now, days - 1 - i))
            found == SelectSeq(recent_summaries, LAMBDA r : r.date = date_str)
        IN  IF found # <<>>
            THEN LET summary == found[Len(found)]
                 IN  DayData(date_str, summary.total_calories, summary.total_protein_g,
                             summary.total_carbs_g, summary.total_fat_g)
            ELSE DayData(date_str, 0, 0, 0, 0)]

\* get_historical_nutrition_data.  Line 170 calls
\* supabase_client.get_recent_daily_summaries, which class SupabaseMiniApp
\* does not define: evaluating the attribute raises AttributeError, so the
\* loop that follows is reached in no run and the function raises always.
get_historical_nutrition_data(st, fail, user_id, days, now) ==
    LET id == ParseInt(user_id) IN
    IF id.raised THEN Raised
    ELSE
    LET user_profile == get_user_profile(st, fail, id.val) IN
    IF user_profile = None THEN Raised
    ELSE
    LET p == user_profile[1] IN
    IF \/ FloatRaises(p.calorie_target) \/ FloatRaises(p.protein_target_g)
       \/ FloatRaises(p.carbs_target_g) \/ FloatRaises(p.fat_target_g)
    THEN Raised
    ELSE IF "get_recent_daily_summaries" \notin SupabaseMiniAppMethods THEN Raised
    ELSE
    LET recent_summaries == get_recent_daily_summaries(st, fail, id.val, days, now) IN
    IF recent_summaries.raised THEN Raised
    ELSE [raised |-> FALSE,
          daily_targets |->
             [calories |-> Float(p.calorie_target), protein |-> Float(p.protein_target_g),
              carbs |-> Float(p.carbs_target_g), fats |-> Float(p.fat_target_g)],
          historical_data |-> HistoricalData(recent_summaries.data, days, now)]

\* x or 0, for a column value x.
OrZero(x) == IF x = None THEN 0 ELSE x[1]

ZeroCounters == [current_streak |-> 0, days_since_last_meal_log |-> 0, coins |-> 0]

\* The reader answering a row with a NULL counter with three zeros.
get_user_streak_data_all_or_none(st, fail, user_id) ==
    LET id == ParseInt(user_id) IN
    IF id.raised \/ "users" \in fail THEN ZeroCounters
    ELSE LET data == SelectUsers(st, id.val) IN
         IF data = <<>> THEN ZeroCounters
         ELSE IF \E c \in DOMAIN ZeroCounters : data[1][c] = None THEN ZeroCounters
         ELSE [c \in DOMAIN ZeroCounters |-> data[1][c][1]]

\* get_user_streak_data
get_user_streak_data(st, fail, user_id) ==
    LET id == ParseInt(user_id) IN
    IF id.raised THEN ZeroCounters
    ELSE IF "users" \in fail THEN ZeroCounters
    ELSE LET data == SelectUsers(st, id.val) IN
         IF data = <<>> THEN ZeroCounters
         ELSE [current_streak |-> OrZero(data[1].current_streak),
               days_since_last_meal_log |-> OrZero(data[1].days_since_last_meal_log),
               coins |-> OrZero(data[1].coins)]

\* The targets of the history handler's fallback response.
FallbackTargets == [calories |-> 2500, protein |-> 200, carbs |-> 300, fats |-> 80]

DayResponse(day_data) ==
    [date |-> day_data.date, calories |-> day_data.calories,
     protein |-> day_data.protein, carbs |-> day_data.carbs,
     fats |-> day_data.fats, caloriesSpent |-> 0]

\* The empty days with the window shifted by one day: today - (days - i).
FallbackDaysShifted(days, now) ==
    [k \in 1..Max(0, days) |->
        [date |-> IsoFormat(DateMinusDays(now, days - Range(days)[k])),
         calories |-> 0, protein |-> 0, carbs |-> 0, fats |-> 0, caloriesSpent |-> 0]]

\* The "empty days" of the history handler's except branch.
FallbackDays(days, now) ==
    [k \in 1..Max(0, days) |->
        LET i == Range(days)[k]
            target_date == DateMinusDays(now, days - 1 - i)
        IN  [date |-> IsoFormat(target_date), calories |-> 0, protein |-> 0,
             carbs |-> 0, fats |-> 0, caloriesSpent |-> 0]]

\* The value of query_params.get(name, [default])[0].
QueryParam(q, default) == IF q = None THEN default ELSE q[1]

\* RequestHandler.handle_api_historical_data, with do_GET's error handling:
\* when int() of the days parameter raises, the except branch reads the
\* unbound local `days`, and that error leaves the handler as a 500.
handle_api_historical_data(st, fail, q_user_id, q_days, now) ==
    LET user_id == QueryParam(q_user_id, DemoAlias)
        days == ParseInt(QueryParam(q_days, <<"7">>))
    IN
    IF days.raised THEN [op |-> "historical", status |-> 500, q_days |-> q_days]
    ELSE
    LET historical_data == get_historical_nutrition_data(st, fail, user_id, days.val, now) IN
    IF historical_data.raised
    THEN [op |-> "historical", status |-> 200, user_id |-> user_id, days |-> days.val,
          q_days |-> q_days, fail |-> fail, daily_targets |-> FallbackTargets,
          last_7_days |-> FallbackDays(days.val, now)]
    ELSE [op |-> "historical", status |-> 200, user_id |-> user_id, days |-> days.val,
          q_days |-> q_days, fail |-> fail, daily_targets |-> historical_data.daily_targets,
          last_7_days |->
             [k \in 1..Len(historical_data.historical_data) |->
                 DayResponse(historical_data.historical_data[k])]]

\* RequestHandler.handle_api_streak_data
handle_api_streak_data(st, fail, q_user_id) ==
    LET user_id == QueryParam(q_user_id, DemoAlias)
        streak_data == get_user_streak_data(st, fail, user_id)
    IN  [op |-> "streak", status |-> 200, user_id |-> user_id, fail |-> fail,
         current_streak |-> Get(streak_data, "current_streak", 0),
         days_since_last_meal_log |-> Get(streak_data, "days_since_last_meal_log", 0),
         coins |-> Get(streak_data, "coins", 0)]

\* The four keys of the targets / consumed_today / remaining / progress dicts.
Keys == {"calories", "protein_g", "fats_g", "carbs_g"}

Dict(c, p, f, cb) ==
    [k \in Keys |-> CASE k = "calories" -> c [] k = "protein_g" -> p
                      [] k = "fats_g" -> f [] OTHER -> cb]

\* The methods class RequestHandler defines that serve data.
RequestHandlerMethods ==
    { "handle_nutrition_dashboard", "handle_api_nutrition_data",
      "handle_api_historical_data", "handle_api_streak_data",
      "handle_update_user_data", "inject_user_data" }

\* The aggregation the nutrition-data handler asks for, as the spec's
\* section on the today's-nutrition response describes it: the remaining
\* view of NutritionDataHandler.
get_real_user_nutrition_data(st, fail, user_id, now) ==
    get_user_nutrition_data(st, fail, user_id, now)

\* The fallback of the nutrition-data handler.
NutritionFallback(user_id, fail) ==
    [op |-> "nutrition_api", status |-> 200, user_id |-> user_id, fail |-> fail,
     targets |-> Dict(2500, 200, 80, 300),
     consumed_today |-> Dict(0, 0, 0, 0),
     remaining |-> Dict(2500, 200, 80, 300)]

\* RequestHandler.handle_api_nutrition_data.  Line 435 calls
\* self.get_real_user_nutrition_data, which class RequestHandler does not
\* define: the AttributeError is caught by the handler's except branch, so
\* every request is answered with the fallback.
handle_api_nutrition_data(st, fail, q_user_id, now) ==
    LET user_id == QueryParam(q_user_id, DemoAlias) IN
    IF "get_real_user_nutrition_data" \notin RequestHandlerMethods
    THEN NutritionFallback(user_id, fail)
    ELSE
    LET real_data == get_real_user_nutrition_data(st, fail, user_id, now) IN
    IF real_data.raised THEN NutritionFallback(user_id, fail)
    ELSE LET d == real_data.data IN
         [op |-> "nutrition_api", status |-> 200, user_id |-> user_id, fail |-> fail,
          targets |-> Dict(d.calories.total, d.protein.total, d.fats.total, d.carbs.total),
          consumed_today |-> Dict(d.calories.total - d.calories.value,
                                  d.protein.total - d.protein.value,
                                  d.fats.total - d.fats.value,
                                  d.carbs.total - d.carbs.value),
          remaining |-> Dict(d.calories.value, d.protein.value, d.fats.value,
                             d.carbs.value)]

UpdateDefaultTargets == Dict(2000, 150, 65, 250)

UpdateDefaultConsumed == Dict(0, 0, 0, 0)

UpdateDefaultRemaining == Dict(2000, 150, 65, 250)

UpdateDefaultProgress == Dict(<<0, 1>>, <<0, 1>>, <<0, 1>>, <<0, 1>>)

\* The ratio taken the wrong way round: target / consumed.
ProgressInverted(consumed, target) == MinOne(Ratio(target, consumed))

\* min(1.0, consumed / target) of update_user_nutrition_data.
Progress(consumed, target) == MinOne(Ratio(consumed, target))

\* str(user_id) for an id given as an int or as a str.
PyStr(v) == IF v.type = "int" THEN Str(v.int) ELSE v.str

\* The entry update_user_nutrition_data stores, or the ZeroDivisionError it
\* raises before storing anything when a target it divides by is 0.
update_user_nutrition_data(user_id, targets, consumed_today, meal_count) ==
    LET user_id_str == PyStr(user_id)
        calc == Truthy(targets) /\ Truthy(consumed_today)
        t(k) == Get(targets[1], k, UpdateDefaultTargets[k])
        c(k) == Get(consumed_today[1], k, 0)
    IN
    IF calc /\ \E k \in Keys : t(k) = 0 THEN Raised
    ELSE
    LET remaining == IF calc THEN [k \in Keys |-> Remaining(t(k), c(k))]
                     ELSE UpdateDefaultRemaining
        progress == IF calc THEN [k \in Keys |-> Progress(c(k), t(k))]
                    ELSE UpdateDefaultProgress
    IN  [raised |-> FALSE,
         key |-> user_id_str,
         entry |->
           [user_id |-> user_id_str,
            targets |-> IF Truthy(targets) THEN targets[1] ELSE UpdateDefaultTargets,
            consumed_today |-> IF Truthy(consumed_today) THEN consumed_today[1]
                               ELSE UpdateDefaultConsumed,
            remaining |-> remaining,
            progress |-> progress,
            meal_count |-> meal_count]]

\* The entry USER_DATA holds when the module is loaded.
sample_data ==
    [user_id |-> DemoAlias,
     targets |-> Dict(2500, 200, 80, 300),
     consumed_today |-> Dict(301, 39, 19, 49),
     remaining |-> Dict(2199, 161, 61, 251),
     progress |-> Dict(<<12, 100>>, <<195, 1000>>, <<2375, 10000>>, <<1633, 10000>>),
     meal_count |-> 1]

\* RequestHandler.send_json_response(self, data): the signature has no
\* status_code, a call passing keywords raises TypeError; the status is 200.
send_json_response(data, keywords) ==
    IF keywords # {} THEN Raised
    ELSE [raised |-> FALSE, status |-> 200, body |-> Some(data)]

\* The value of data.get(k) of a JSON object: None when the key is absent.
GetOrNone(data, k) == IF k \in DOMAIN data THEN Some(data[k]) ELSE None

\* RequestHandler.handle_update_user_data.  A request is its Content-Length
\* header (present or not) and its body (None: no JSON).  The try block
\* fails at int(None), at json.loads or in update_user_nutrition_data; the
\* except branch then calls send_json_response with status_code=400.
handle_update_user_data(ud, request) ==
    LET read == request.content_length /\ request.body # None
        data == request.body[1]
        user_id == [type |-> "str", int |-> 0,
                    str |-> PyStr(Get(data, "user_id",
                                      [type |-> "str", int |-> 0, str |-> DemoAlias]))]
        r == update_user_nutrition_data(user_id, GetOrNone(data, "targets"),
                                        GetOrNone(data, "consumed_today"),
                                        Get(data, "meal_count", 0))
        failed == ~read \/ r.raised
        sent == IF failed
                THEN send_json_response([status |-> "error"], {"status_code"})
                ELSE send_json_response([status |-> "success"], {})
    IN  [raised |-> sent.raised,
         failed |-> failed,
         sent |-> sent,
         ud |-> IF failed THEN ud
                ELSE [k \in DOMAIN ud \cup {r.key} |->
                        IF k = r.key THEN r.entry ELSE ud[k]]]

\* RequestHandler.do_POST: the status and JSON body sent for a path, and
\* the USER_DATA left; an exception of the handler is answered by
\* send_error(500), an unknown path by send_error(404).
do_POST(ud, path, request) ==
    IF path # <<"/api/update-user-data">>
    THEN [status |-> 404, body |-> None, ud |-> ud]
    ELSE LET h == handle_update_user_data(ud, request) IN
         IF h.raised THEN [status |-> 500, body |-> None, ud |-> h.ud]
         ELSE [status |-> h.sent.status, body |-> h.sent.body, ud |-> h.ud]

(* --------------------------- web_server.py ------------------------------ *)

\* web_server.py holds a USER_DATA of its own, loaded with the same sample
\* entry (lines 19-34), and the same update_user_nutrition_data (lines
\* 37-86).  A specification models one server process; in SpecWeb the
\* variable USER_DATA is the dict of web_server.py.

\* The names module supabase_db defines.
SupabaseDbNames == {"SupabaseMiniApp", "logger"}

\* The demo record of api_nutrition_data.
WebDemoData(user_id) ==
    [user_id |-> user_id,
     targets |-> Dict(2500, 200, 80, 300),
     consumed_today |-> Dict(301, 39, 19, 49),
     remaining |-> Dict(2199, 161, 61, 251),
     progress |-> Dict(<<12, 100>>, <<195, 1000>>, <<2375, 10000>>, <<1633, 10000>>),
     meal_count |-> 1]

\* The except branch of api_nutrition_data: the stored entry of the user
\* when there is a non-empty one, else the demo record.
WebStoredOrDemo(ud, user_id) ==
    IF user_id \in DOMAIN ud /\ DOMAIN ud[user_id] # {}
    THEN ud[user_id] ELSE WebDemoData(user_id)

\* Lines 229-272 of api_nutrition_data, with a SupabaseDatabase whose two
\* lookups are those of SupabaseMiniApp: the record computed from the store,
\* or the error of float(None) or of the division by a zero target.
WebRealData(st, fail, user_id, user_telegram_id, now) ==
    LET targets == get_user_nutrition_targets(st, fail, user_telegram_id)
        consumed == get_today_nutrition_summary(st, fail, user_telegram_id, now)
        t == Dict(targets.calorie_target, targets.protein_target_g,
                  targets.fat_target_g, targets.carbs_target_g)
        c == Dict(consumed.total_calories, consumed.total_protein_g,
                  consumed.total_fat_g, consumed.total_carbs_g)
    IN  IF \E k \in Keys : FloatRaises(t[k]) \/ Float(t[k]) = 0 THEN Raised
        ELSE [raised |-> FALSE,
              data |-> [user_id |-> user_id,
                        targets |-> [k \in Keys |-> Float(t[k])],
                        consumed_today |-> c,
                        remaining |-> [k \in Keys |-> Remaining(Float(t[k]), c[k])],
                        progress |-> [k \in Keys |-> MinOne(Ratio(c[k], Float(t[k])))],
                        meal_count |-> 0]]

\* api_nutrition_data.  With Supabase configured, line 223 imports
\* SupabaseDatabase from supabase_db, which defines no such name: the
\* ImportError reaches the except branch in every such request.
api_nutrition_data(ud, st, fail, q_user_id, available, now) ==
    LET user_id == QueryParam(q_user_id, DemoAlias) IN
    IF ~available THEN WebDemoData(user_id)
    ELSE IF user_id # DemoAlias /\ ParseInt(user_id).raised
    THEN WebStoredOrDemo(ud, user_id)
    ELSE IF "SupabaseDatabase" \notin SupabaseDbNames
    THEN WebStoredOrDemo(ud, user_id)
    ELSE LET user_telegram_id == IF user_id = DemoAlias THEN 123456789
                                 ELSE ParseInt(user_id).val
             real == WebRealData(st, fail, user_id, user_telegram_id, now)
         IN  IF real.raised THEN WebStoredOrDemo(ud, user_id) ELSE real.data

\* The entry api_update_user_data stores for the JSON body data.
WebUpdateEntry(data) ==
    [user_id |-> PyStr(Get(data, "user_id", [type |-> "str", int |-> 0, str |-> DemoAlias])),
     targets |-> Get(data, "targets", Dict(2500, 200, 80, 300)),
     consumed_today |-> Get(data, "consumed_today", Dict(0, 0, 0, 0)),
     remaining |-> Get(data, "remaining", Dict(2500, 200, 80, 300)),
     progress |-> Get(data, "progress", Dict(<<0, 1>>, <<0, 1>>, <<0, 1>>, <<0, 1>>)),
     meal_count |-> Get(data, "meal_count", 0)]

\* The record api_user_data and nutrition_dashboard read for a user without
\* an entry.
WebDefaultViews ==
    [calories |-> View(2199, 2500), protein |-> View(161, 200),
     carbs |-> View(251, 300), fats |-> View(61, 80)]

\* api_user_data
api_user_data(ud, user_id) == Get(ud, user_id, WebDefaultViews)

\* The records nutrition_dashboard reads, in the order of the rings.
RingKeys == <<"calories", "protein", "fats", "carbs">>

\* The exception of (user_data[k]['total'] - user_data[k]['value']) /
\* user_data[k]['total'], or "" when the ring of k is computed.
RingError(user_data, k) ==
    IF k \notin DOMAIN user_data THEN "KeyError"
    ELSE IF "total" \notin DOMAIN user_data[k] THEN "KeyError"
    ELSE IF "value" \notin DOMAIN user_data[k] THEN "KeyError"
    ELSE IF user_data[k].total = 0 THEN "ZeroDivisionError"
    ELSE ""

\* nutrition_dashboard of web_server: the page with the four ring
\* progresses, or status 500 for the first exception raised: of open() when
\* the template is absent, of the first ring that cannot be computed.
nutrition_dashboard(ud, q_user_id, template) ==
    LET user_id == QueryParam(q_user_id, DemoAlias)
        user_data == Get(ud, user_id, WebDefaultViews)
        failing == { i \in DOMAIN RingKeys : RingError(user_data, RingKeys[i]) # "" }
        first == CHOOSE i \in failing : \A j \in failing : i <= j
    IN  IF ~template THEN [status |-> 500, error |-> "FileNotFoundError"]
        ELSE IF failing # {}
        THEN [status |-> 500, error |-> RingError(user_data, RingKeys[first])]
        ELSE [status |-> 200, error |-> "",
              rings |-> [i \in DOMAIN RingKeys |->
                           Ratio(user_data[RingKeys[i]].total - user_data[RingKeys[i]].value,
                                 user_data[RingKeys[i]].total)]]

(* ------------------------------- inputs --------------------------------- *)

\* Numeric ids the adapter is called with.
NumericIds == {UserWithRows, OtherUser, LogOnlyUser}

\* A user id that is neither a number nor 'user_123'.
WordId == <<"a", "b">>

\* The user_id query parameter: absent, or one of these strings.
UserIdParams ==
    {None} \cup { Some(u) : u \in {Str(UserWithRows), Str(OtherUser), DemoAlias, WordId} }

\* The days query parameter: absent (the handler then reads '7'), a count
\* from 0 to MaxDays, a negative count, or a string that is no number.
DaysParams ==
    {None} \cup { Some(Str(n)) : n \in 0..MaxDays } \cup { Some(Str(0 - 1)), Some(<<"x">>) }

\* The user_id argument of update_user_nutrition_data: an int or a str.
UpdateIds ==
    { [type |-> "int", int |-> UserWithRows, str |-> <<>>],
      [type |-> "str", int |-> 0, str |-> Str(UserWithRows)],
      [type |-> "str", int |-> 0, str |-> DemoAlias] }

EmptyDict == <<>>

UpdateTargets ==
    { None, Some(EmptyDict), Some(Dict(2500, 200, 80, 300)),
      Some(Dict(0, 200, 80, 300)), Some([k \in {"calories"} |-> 100]) }

UpdateConsumed ==
    { None, Some(EmptyDict), Some(Dict(301, 39, 19, 49)),
      Some(Dict(3000, 250, 90, 350)) }

MealCounts == {2}

\* The ids of the requests of web_server.
WebUserIds == {Str(UserWithRows), DemoAlias, WordId}

\* The JSON bodies of POST /api/update-user-data of web_server: None is a
\* body that is no JSON.
WebUpdateBodies ==
    { None,
      Some(EmptyDict),
      Some([user_id |-> [type |-> "int", int |-> UserWithRows, str |-> <<>>],
            targets |-> Dict(1800, 120, 60, 220),
            consumed_today |-> Dict(500, 50, 20, 60),
            remaining |-> Dict(1300, 70, 40, 160),
            progress |-> Dict(<<500, 1800>>, <<50, 120>>, <<20, 60>>, <<60, 220>>),
            meal_count |-> 2]),
      Some([user_id |-> [type |-> "str", int |-> 0, str |-> Str(UserWithRows)],
            consumed_today |-> Dict(900, 90, 30, 100)]),
      Some([user_id |-> [type |-> "str", int |-> 0, str |-> DemoAlias],
            consumed_today |-> Dict(3000, 250, 90, 350), meal_count |-> 3]),
      Some([targets |-> Dict(0, 200, 80, 300)]) }

\* The JSON bodies of POST /api/user/{user_id} of web_server.
WebPostBodies == { None, Some(EmptyDict), Some(WebDefaultViews),
                   Some([calories |-> View(0, 0), protein |-> View(100, 120),
                         carbs |-> View(100, 220), fats |-> View(10, 60)]) }

\* The paths of the POST requests of mini_app_server.
PostPaths == {<<"/api/update-user-data">>, <<"/api/other">>}

\* The POST requests of mini_app_server: without a Content-Length header,
\* with a body that is no JSON, with an empty object, with a zero target
\* beside a consumption, and two bodies update_user_nutrition_data accepts.
PostRequests ==
    { [content_length |-> FALSE, body |-> Some(EmptyDict)],
      [content_length |-> TRUE, body |-> None],
      [content_length |-> TRUE, body |-> Some(EmptyDict)],
      [content_length |-> TRUE,
       body |-> Some([user_id |-> [type |-> "int", int |-> UserWithRows, str |-> <<>>],
                      targets |-> Dict(0, 200, 80, 300),
                      consumed_today |-> Dict(301, 39, 19, 49)])],
      [content_length |-> TRUE,
       body |-> Some([user_id |-> [type |-> "int", int |-> UserWithRows, str |-> <<>>],
                      targets |-> Dict(2500, 200, 80, 300),
                      consumed_today |-> Dict(301, 39, 19, 49),
                      meal_count |-> 2])],
      [content_length |-> TRUE,
       body |-> Some([targets |-> Dict(1800, 120, 60, 220),
                      consumed_today |-> Dict(3000, 250, 90, 350)])] }

\* The dates get_nutrition_summary_for_date is called for.
SummaryDates == {Today0 - 1, Today0, Today0 + 1}

(* --------------------------- the state machine -------------------------- *)

Init ==
    /\ store \in StoreStates
    /\ today = Today0
    /\ USER_DATA = [k \in {DemoAlias} |-> sample_data]
    /\ response = [op |-> "none"]

\* A call of SupabaseMiniApp.get_user_nutrition_targets.
GetUserNutritionTargets(uid, fail) ==
    /\ response' = [op |-> "targets", uid |-> uid, fail |-> fail,
                    queries |-> get_user_nutrition_targets_queries(store, fail, uid),
                    result |-> get_user_nutrition_targets(store, fail, uid)]
    /\ UNCHANGED <<store, today, USER_DATA>>

\* A call of SupabaseMiniApp.get_user_profile.
GetUserProfile(uid, fail) ==
    /\ response' = [op |-> "profile", uid |-> uid, fail |-> fail,
                    queries |-> get_user_profile_queries(store, fail, uid),
                    result |-> get_user_profile(store, fail, uid)]
    /\ UNCHANGED <<store, today, USER_DATA>>

\* The call storing the totals it computed as a daily-summary row.
GetNutritionSummaryForDateCaching(uid, target_date, fail) ==
    LET r == get_nutrition_summary_for_date(store, fail, uid, target_date) IN
    /\ response' = [op |-> "summary", uid |-> uid, date |-> target_date, fail |-> fail,
                    queries |-> summary_queries(store, fail, uid, target_date),
                    result |-> r]
    /\ store' = [store EXCEPT !.daily_nutrition_summary =
                    Append(@, SummaryRow(uid, target_date,
                                         Totals(Some(r.total_calories), Some(r.total_protein_g),
                                                Some(r.total_carbs_g), Some(r.total_fat_g)),
                                         None))]
    /\ UNCHANGED <<today, USER_DATA>>

\* A call of SupabaseMiniApp.get_nutrition_summary_for_date: it reads the
\* store and writes nothing.
GetNutritionSummaryForDate(uid, target_date, fail) ==
    /\ response' = [op |-> "summary", uid |-> uid, date |-> target_date, fail |-> fail,
                    queries |-> summary_queries(store, fail, uid, target_date),
                    result |-> get_nutrition_summary_for_date(store, fail, uid, target_date)]
    /\ UNCHANGED <<store, today, USER_DATA>>

\* A call of SupabaseMiniApp.get_user_nutrition_data.
SupabaseGetUserNutritionData(uid, fail) ==
    /\ response' = [op |-> "adapter_data", uid |-> uid, fail |-> fail,
                    data |-> supabase_get_user_nutrition_data(store, fail, uid, today)]
    /\ UNCHANGED <<store, today, USER_DATA>>

\* A call of NutritionDataHandler.get_user_nutrition_data.
GetUserNutritionData(user_id, fail) ==
    /\ response' = [op |-> "nutrition_data", user_id |-> user_id, fail |-> fail,
                    result |-> get_user_nutrition_data(store, fail, user_id, today)]
    /\ UNCHANGED <<store, today, USER_DATA>>

\* GET /nutrition-dashboard
HandleNutritionDashboard(q_user_id, fail, template) ==
    /\ response' = handle_nutrition_dashboard(store, fail, q_user_id, template, today)
    /\ UNCHANGED <<store, today, USER_DATA>>

\* GET /api/historical-data
HandleApiHistoricalData(q_user_id, q_days, fail) ==
    /\ response' = handle_api_historical_data(store, fail, q_user_id, q_days, today)
    /\ UNCHANGED <<store, today, USER_DATA>>

\* GET /api/nutrition-data of mini_app_server
HandleApiNutritionData(q_user_id, fail) ==
    /\ response' = handle_api_nutrition_data(store, fail, q_user_id, today)
    /\ UNCHANGED <<store, today, USER_DATA>>

\* GET /api/streak-data
HandleApiStreakData(q_user_id, fail) ==
    /\ response' = handle_api_streak_data(store, fail, q_user_id)
    /\ UNCHANGED <<store, today, USER_DATA>>

\* The call rebinding USER_DATA to a dict holding the new entry alone.
UpdateUserNutritionDataReset(user_id, targets, consumed_today, meal_count) ==
    LET r == update_user_nutrition_data(user_id, targets, consumed_today, meal_count) IN
    /\ USER_DATA' = IF r.raised THEN USER_DATA ELSE [k \in {r.key} |-> r.entry]
    /\ response' = [op |-> "update", raised |-> r.raised, user_id |-> user_id,
                    targets |-> targets, consumed_today |-> consumed_today,
                    key |-> PyStr(user_id),
                    returned |-> IF r.raised THEN None ELSE Some(r.entry)]
    /\ UNCHANGED <<store, today>>

\* A call of update_user_nutrition_data: the entry is stored under
\* str(user_id) and returned.
UpdateUserNutritionData(user_id, targets, consumed_today, meal_count) ==
    LET r == update_user_nutrition_data(user_id, targets, consumed_today, meal_count) IN
    /\ USER_DATA' = IF r.raised THEN USER_DATA
                    ELSE [k \in DOMAIN USER_DATA \cup {r.key} |->
                            IF k = r.key THEN r.entry ELSE USER_DATA[k]]
    /\ response' = [op |-> "update", raised |-> r.raised, user_id |-> user_id,
                    targets |-> targets, consumed_today |-> consumed_today,
                    key |-> PyStr(user_id),
                    returned |-> IF r.raised THEN None ELSE Some(r.entry)]
    /\ UNCHANGED <<store, today>>

\* GET /api/nutrition-data of web_server
ApiNutritionData(q_user_id, available, fail) ==
    /\ response' = [op |-> "web_nutrition", status |-> 200, q_user_id |-> q_user_id,
                    available |-> available, fail |-> fail,
                    body |-> api_nutrition_data(USER_DATA, store, fail, q_user_id,
                                                available, today)]
    /\ UNCHANGED <<store, today, USER_DATA>>

\* A POST request of mini_app_server.
DoPost(path, request) ==
    LET r == do_POST(USER_DATA, path, request) IN
    /\ USER_DATA' = r.ud
    /\ response' = [op |-> "post", path |-> path, request |-> request,
                    status |-> r.status, body |-> r.body]
    /\ UNCHANGED <<store, today>>

\* GET /nutrition-dashboard of web_server
NutritionDashboard(q_user_id, template) ==
    /\ response' = [op |-> "web_dashboard", q_user_id |-> q_user_id,
                    template |-> template,
                    page |-> nutrition_dashboard(USER_DATA, q_user_id, template)]
    /\ UNCHANGED <<store, today, USER_DATA>>

\* POST /api/update-user-data of web_server
ApiUpdateUserData(body) ==
    IF body = None
    THEN /\ response' = [op |-> "web_update", status |-> 400]
         /\ UNCHANGED <<store, today, USER_DATA>>
    ELSE LET entry == WebUpdateEntry(body[1]) IN
         /\ USER_DATA' = [k \in DOMAIN USER_DATA \cup {entry.user_id} |->
                            IF k = entry.user_id THEN entry ELSE USER_DATA[k]]
         /\ response' = [op |-> "web_update", status |-> 200, user_id |-> entry.user_id]
         /\ UNCHANGED <<store, today>>

\* GET /api/user/{user_id} of web_server
ApiUserData(user_id) ==
    /\ response' = [op |-> "web_user", status |-> 200, user_id |-> user_id,
                    body |-> api_user_data(USER_DATA, user_id)]
    /\ UNCHANGED <<store, today, USER_DATA>>

\* The POST storing the body under every key of USER_DATA.
ApiUpdateDataShared(user_id, body) ==
    IF body = None
    THEN /\ response' = [op |-> "web_post", status |-> 400, user_id |-> user_id,
                         body |-> body]
         /\ UNCHANGED <<store, today, USER_DATA>>
    ELSE /\ USER_DATA' = [k \in DOMAIN USER_DATA \cup {user_id} |-> body[1]]
         /\ response' = [op |-> "web_post", status |-> 200, user_id |-> user_id,
                         body |-> body]
         /\ UNCHANGED <<store, today>>

\* POST /api/user/{user_id} of web_server
ApiUpdateData(user_id, body) ==
    IF body = None
    THEN /\ response' = [op |-> "web_post", status |-> 400, user_id |-> user_id,
                         body |-> body]
         /\ UNCHANGED <<store, today, USER_DATA>>
    ELSE /\ USER_DATA' = [k \in DOMAIN USER_DATA \cup {user_id} |->
                            IF k = user_id THEN body[1] ELSE USER_DATA[k]]
         /\ response' = [op |-> "web_post", status |-> 200, user_id |-> user_id,
                         body |-> body]
         /\ UNCHANGED <<store, today>>

\* The requests served from the store.
NextStore ==
    \/ \E uid \in NumericIds, fail \in FailChoices : GetUserNutritionTargets(uid, fail)
    \/ \E uid \in NumericIds, fail \in FailChoices : GetUserProfile(uid, fail)
    \/ \E uid \in NumericIds, d \in SummaryDates, fail \in FailChoices :
          GetNutritionSummaryForDate(uid, d, fail)
    \/ \E uid \in NumericIds, fail \in FailChoices : SupabaseGetUserNutritionData(uid, fail)
    \/ \E u \in UserIdParams \ {None}, fail \in FailChoices : GetUserNutritionData(u[1], fail)
    \/ \E u \in UserIdParams, fail \in FailChoices, template \in BOOLEAN :
          HandleNutritionDashboard(u, fail, template)
    \/ \E u \in UserIdParams, d \in DaysParams, fail \in FailChoices :
          HandleApiHistoricalData(u, d, fail)
    \/ \E u \in UserIdParams, fail \in FailChoices : HandleApiNutritionData(u, fail)
    \/ \E u \in UserIdParams, fail \in FailChoices : HandleApiStreakData(u, fail)

\* The updates of the in-memory USER_DATA.
NextMemory ==
    \/ \E id \in UpdateIds, t \in UpdateTargets, c \in UpdateConsumed, m \in MealCounts :
          UpdateUserNutritionData(id, t, c, m)
    \/ \E path \in PostPaths, request \in PostRequests : DoPost(path, request)

\* The call sites of the remaining/progress calculation: the adapter, the
\* handler, the dashboard and the update of the entry of 'user_123'.
NextCalc ==
    \/ \E uid \in NumericIds, fail \in FailChoices : SupabaseGetUserNutritionData(uid, fail)
    \/ \E u \in UserIdParams \ {None}, fail \in FailChoices : GetUserNutritionData(u[1], fail)
    \/ \E u \in UserIdParams, fail \in FailChoices, template \in BOOLEAN :
          HandleNutritionDashboard(u, fail, template)
    \/ \E t \in UpdateTargets, c \in UpdateConsumed, m \in MealCounts :
          UpdateUserNutritionData([type |-> "str", int |-> 0, str |-> DemoAlias], t, c, m)

\* The requests of web_server.
NextWeb ==
    \/ \E u \in {None} \cup {Some(x) : x \in WebUserIds}, available \in BOOLEAN :
          ApiNutritionData(u, available, {})
    \/ \E body \in WebUpdateBodies : ApiUpdateUserData(body)
    \/ \E u \in WebUserIds : ApiUserData(u)
    \/ \E u \in WebUserIds, body \in WebPostBodies : ApiUpdateData(u, body)
    \/ \E u \in {None} \cup {Some(x) : x \in WebUserIds}, template \in BOOLEAN :
          NutritionDashboard(u, template)

\* The store is not read by the updates of USER_DATA: one store suffices.
InitMemory ==
    /\ Init
    /\ store.users = <<>>
    /\ store.daily_nutrition_summary = <<>>

\* Requests served from the store.
Spec == Init /\ [][NextStore]_vars

\* Updates of USER_DATA.
SpecMemory == InitMemory /\ [][NextMemory]_vars

\* The calculator's call sites.
SpecCalc == Init /\ [][NextCalc]_vars

\* The requests of web_server.
SpecWeb == InitMemory /\ [][NextWeb]_vars

(* ------------------------------ the claims ------------------------------ *)

\* The users row of a numeric id, as the set of its positions in the table.
ProfileRowsOf(uid) == { i \in 1..Len(store.users) : store.users[i].user_id = uid }

\* The summary rows of (uid, ordinal date), as positions in the table.
SummaryRowsOf(uid, date) ==
    { i \in 1..Len(store.daily_nutrition_summary) :
        /\ store.daily_nutrition_summary[i].user_telegram_id = uid
        /\ store.daily_nutrition_summary[i].date = FromOrdinal(date) }

\* The logs of uid stamped within the 24 hours of an ordinal date.
LogsOf(uid, date) ==
    { i \in 1..Len(store.nutrition_logs) :
        /\ store.nutrition_logs[i].user_telegram_id = uid
        /\ store.nutrition_logs[i].logged_at.date = date
        /\ store.nutrition_logs[i].logged_at.hour \in 0..23 }

NullAsZero(x) == IF x = <<>> THEN 0 ELSE x[1]

RECURSIVE SumOver(_, _, _)
SumOver(S, table, field) ==
    IF S = {} THEN 0
    ELSE LET i == CHOOSE j \in S : TRUE
         IN  NullAsZero(table[i][field]) + SumOver(S \ {i}, table, field)

\* Today's consumption of one field, as section 4.2 of the spec defines it:
\* the daily summary when there is one, else the sum of the day's logs, and
\* zero when the query it needs fails.
ConsumedToday(uid, fail, summaryField, logField) ==
    IF "daily_nutrition_summary" \in fail THEN 0
    ELSE IF SummaryRowsOf(uid, today) # {}
        THEN NullAsZero(store.daily_nutrition_summary[
                 CHOOSE i \in SummaryRowsOf(uid, today) : TRUE][summaryField])
    ELSE IF "nutrition_logs" \in fail THEN 0
    ELSE SumOver(LogsOf(uid, today), store.nutrition_logs, logField)

\* Whether the update recorded in response made the calculation: both
\* targets and consumed_today were given and non-empty.
UpdateCalculated ==
    /\ response.op = "update"
    /\ response.targets # <<>>
    /\ response.consumed_today # <<>>
    /\ DOMAIN response.targets[1] # {}
    /\ DOMAIN response.consumed_today[1] # {}

\* The target and the consumption the update recorded in response used for
\* key k: the value given, else the default of the .get call.
UpdateTarget(k) ==
    IF k \in DOMAIN response.targets[1] THEN response.targets[1][k]
    ELSE (CASE k = "calories" -> 2000 [] k = "protein_g" -> 150
            [] k = "fats_g" -> 65 [] OTHER -> 250)

UpdateConsumedOf(k) ==
    IF k \in DOMAIN response.consumed_today[1] THEN response.consumed_today[1][k] ELSE 0

\* C1: every remaining value the three remaining calculations produce is
\* >= 0, whatever the targets and the consumption, also when the consumption
\* exceeds the target: the adapter's view, the handler's view, and the
\* remaining of every USER_DATA entry.
C1_RemainingNonNegative ==
    /\ response.op = "adapter_data"
          => \A m \in Macros : response.data[m].value >= 0
    /\ (response.op = "nutrition_data" /\ ~response.result.raised)
          => \A m \in Macros : response.result.data[m].value >= 0
    /\ \A u \in DOMAIN USER_DATA : \A k \in Keys : USER_DATA[u].remaining[k] >= 0

\* C1 witness: the handler returned a view for a user whose calories of
\* today (3000) exceed the target (2500), and an update with consumption
\* above the target has been stored.
C1_Witness ==
    /\ response.op = "nutrition_data"
    /\ ~response.result.raised
    /\ response.result.data["calories"] = [value |-> 0, total |-> 2500]
    /\ ConsumedToday(UserWithRows, response.fail, "total_calories", "total_calories") = 3000
    /\ \E u \in DOMAIN USER_DATA :
          /\ USER_DATA[u].consumed_today["calories"] > USER_DATA[u].targets["calories"]
          /\ USER_DATA[u].remaining["calories"] = 0

\* C2: the remaining view is exactly value = max(0, target - consumed) and
\* total = target for each macro: the handler's view is computed from the
\* targets of the user's users row and from today's consumption, and an
\* update that makes the calculation stores max(0, target - consumed) of the
\* targets and consumption it was given.
C2_RemainingIsTargetMinusConsumed ==
    /\ (response.op = "nutrition_data" /\ ~response.result.raised) =>
          \E id \in {UserWithRows, OtherUser, LogOnlyUser} :
             /\ Str(id) = response.user_id
             /\ ProfileRowsOf(id) # {}
             /\ LET row == store.users[CHOOSE i \in ProfileRowsOf(id) : TRUE]
                    view == response.result.data
                    c(sf, lf) == ConsumedToday(id, response.fail, sf, lf)
                    expect(target, consumed) ==
                        [value |-> IF target[1] - consumed > 0 THEN target[1] - consumed ELSE 0,
                         total |-> target[1]]
                IN  /\ view["calories"] =
                          expect(row.calorie_target, c("total_calories", "total_calories"))
                    /\ view["protein"] =
                          expect(row.protein_target_g, c("total_protein_g", "protein_g"))
                    /\ view["carbs"] =
                          expect(row.carbs_target_g, c("total_carbs_g", "carbs_g"))
                    /\ view["fats"] =
                          expect(row.fat_target_g, c("total_fat_g", "fat_g"))
    /\ (UpdateCalculated /\ ~response.raised) =>
          \A k \in Keys :
             USER_DATA[response.key].remaining[k] =
                 (IF UpdateTarget(k) - UpdateConsumedOf(k) > 0
                  THEN UpdateTarget(k) - UpdateConsumedOf(k) ELSE 0)

\* C2 witness: the scenario of the spec, in the handler (targets 2500, 200,
\* 300, 80 and consumption 301, 39, 49, 19 give 2199, 161, 251, 61) and in an
\* entry written by an update.
C2_Witness ==
    /\ response.op = "nutrition_data"
    /\ ~response.result.raised
    /\ response.result.data =
          [calories |-> [value |-> 2199, total |-> 2500],
           protein |-> [value |-> 161, total |-> 200],
           carbs |-> [value |-> 251, total |-> 300],
           fats |-> [value |-> 61, total |-> 80]]
    /\ USER_DATA[DemoAlias].progress["calories"] = <<301, 2500>>
    /\ USER_DATA[DemoAlias].remaining =
          [calories |-> 2199, protein_g |-> 161, fats_g |-> 61, carbs_g |-> 251]

\* Whether a ratio <<n, d>> lies in [0, 1].
InUnitInterval(r) == r[2] > 0 /\ 0 <= r[1] /\ r[1] <= r[2]

\* C3: every progress value computed lies in [0, 1]: the progress of every
\* USER_DATA entry and the consumed/total ratios of a rendered dashboard.
C3_ProgressInUnitInterval ==
    /\ \A u \in DOMAIN USER_DATA : \A k \in Keys : InUnitInterval(USER_DATA[u].progress[k])
    /\ (response.op = "dashboard" /\ response.status = 200)
          => \A m \in Macros : InUnitInterval(response.progress[m])

\* C3 witness: an update with consumption above the target stored the
\* progress 1, and a dashboard was rendered for a user over the target.
C3_Witness ==
    /\ USER_DATA[DemoAlias].consumed_today["calories"] = 3000
    /\ USER_DATA[DemoAlias].targets["calories"] = 2500
    /\ USER_DATA[DemoAlias].progress["calories"] = <<1, 1>>
    /\ response.op = "dashboard"
    /\ response.status = 200
    /\ response.progress["calories"] = <<2500, 2500>>

\* C4: when a macro's target is 0 the progress computed for it is 0 and no
\* division by zero occurs: an update given a zero target stores progress 0
\* for that macro, and a dashboard request (template present or not) of a
\* user whose users row holds a zero target does not fail and shows
\* progress 0 for it.
C4_ZeroTargetGivesZeroProgress ==
    /\ (UpdateCalculated /\ \E k \in Keys : UpdateTarget(k) = 0) =>
          /\ ~response.raised
          /\ \A k \in Keys :
                UpdateTarget(k) = 0 => USER_DATA[response.key].progress[k][1] = 0
    /\ ( /\ response.op = "dashboard"
         /\ response.status # 400
         /\ response.user_id = Str(UserWithRows)
         /\ "users" \notin response.fail
         /\ ProfileRowsOf(UserWithRows) # {}
         /\ store.users[CHOOSE i \in ProfileRowsOf(UserWithRows) : TRUE].calorie_target = <<0>> )
       => (response.status = 200 /\ response.progress["calories"][1] = 0)

\* C5: for a target > 0 the progress of a macro is consumed / target when
\* consumed <= target and 1 when consumed > target, in every update that
\* makes the calculation.
C5_ProgressIsCappedRatio ==
    (UpdateCalculated /\ ~response.raised) =>
        \A k \in Keys :
           LET r == USER_DATA[response.key].progress[k] IN
           /\ UpdateTarget(k) > 0
           /\ r[2] > 0
           /\ IF UpdateConsumedOf(k) <= UpdateTarget(k)
              THEN r[1] * UpdateTarget(k) = UpdateConsumedOf(k) * r[2]
              ELSE r[1] = r[2]

\* Whether ratio r is the decimal n / 10000 to four places.
About(r, n) == r[1] * 10000 - n * r[2] < r[2] /\ n * r[2] - r[1] * 10000 < r[2]

\* C5 witness: the scenario of the spec: targets 2500, 200, 300, 80 and
\* consumption 301, 39, 49, 19 give progress 0.1204, 0.195, 0.1633, 0.2375.
C5_Witness ==
    /\ UpdateCalculated
    /\ ~response.raised
    /\ response.targets[1] = [calories |-> 2500, protein_g |-> 200, fats_g |-> 80, carbs_g |-> 300]
    /\ response.consumed_today[1] = [calories |-> 301, protein_g |-> 39, fats_g |-> 19, carbs_g |-> 49]
    /\ About(USER_DATA[response.key].progress["calories"], 1204)
    /\ About(USER_DATA[response.key].progress["protein_g"], 1950)
    /\ About(USER_DATA[response.key].progress["carbs_g"], 1633)
    /\ About(USER_DATA[response.key].progress["fats_g"], 2375)

\* Lexicographic order of <<year, month, day>>: the order of the ISO strings.
DateBefore(a, b) ==
    \/ a[1] < b[1]
    \/ a[1] = b[1] /\ a[2] < b[2]
    \/ a[1] = b[1] /\ a[2] = b[2] /\ a[3] < b[3]

\* The calendar day after <<year, month, day>>.
DayAfter(d) ==
    LET len == IF d[2] = 2 THEN (IF (d[1] % 4 = 0 /\ d[1] % 100 # 0) \/ d[1] % 400 = 0
                                 THEN 29 ELSE 28)
               ELSE IF d[2] \in {4, 6, 9, 11} THEN 30 ELSE 31
    IN  IF d[3] < len THEN <<d[1], d[2], d[3] + 1>>
        ELSE IF d[2] < 12 THEN <<d[1], d[2] + 1, 1>> ELSE <<d[1] + 1, 1, 1>>

RECURSIVE DaysAfter(_, _)
DaysAfter(d, n) == IF n = 0 THEN d ELSE DaysAfter(DayAfter(d), n - 1)

\* Whether response answers a history request with a series.
HistoryAnswered == response.op = "historical" /\ response.status = 200

\* The numeric id a history response is about, when its user_id is numeric.
HistoryUser == CHOOSE id \in {UserWithRows, OtherUser, LogOnlyUser} : Str(id) = response.user_id

HistoryUserNumeric == \E id \in {UserWithRows, OtherUser, LogOnlyUser} : Str(id) = response.user_id

AllZero(rec) ==
    rec.calories = 0 /\ rec.protein = 0 /\ rec.carbs = 0 /\ rec.fats = 0

\* C6: for days >= 1 the history answered holds exactly `days` records, each
\* dated the calendar day after the one before it (so strictly increasing,
\* without duplicates or gaps), the last dated today and the first dated
\* days - 1 days before today.
C6_HistoryHasDaysConsecutiveDates ==
    (HistoryAnswered /\ response.days >= 1) =>
        LET series == response.last_7_days IN
        /\ Len(series) = response.days
        /\ \A i \in 1..(Len(series) - 1) :
              /\ series[i + 1].date = DayAfter(series[i].date)
              /\ DateBefore(series[i].date, series[i + 1].date)
        /\ \A i, j \in 1..Len(series) : i # j => series[i].date # series[j].date
        /\ series[Len(series)].date = FromOrdinal(today)
        /\ DaysAfter(series[1].date, response.days - 1) = FromOrdinal(today)

\* C6 witness: a request without a days parameter was answered with seven
\* records, whose dates run from February across the leap day into March.
C6_Witness ==
    /\ HistoryAnswered
    /\ response.days = 7
    /\ Len(response.last_7_days) = 7
    /\ response.last_7_days[1].date[2] = 2
    /\ response.last_7_days[7].date[2] = 3
    /\ \E i \in 1..7 : response.last_7_days[i].date = <<2024, 2, 29>>

\* C7: the record of each date of the window carries the totals of the
\* store's daily-summary row of that date when there is one (NULL as 0), and
\* zeros otherwise.
C7_SeriesCarriesSummaryRows ==
    (HistoryAnswered /\ HistoryUserNumeric) =>
        \A i \in 1..Len(response.last_7_days) :
           LET rec == response.last_7_days[i]
               rows == { j \in 1..Len(store.daily_nutrition_summary) :
                           /\ store.daily_nutrition_summary[j].user_telegram_id = HistoryUser
                           /\ store.daily_nutrition_summary[j].date = rec.date }
           IN  IF rows = {} THEN AllZero(rec)
               ELSE \E j \in rows :
                      LET row == store.daily_nutrition_summary[j] IN
                      /\ rec.calories = NullAsZero(row.total_calories)
                      /\ rec.protein = NullAsZero(row.total_protein_g)
                      /\ rec.carbs = NullAsZero(row.total_carbs_g)
                      /\ rec.fats = NullAsZero(row.total_fat_g)

\* C8: when the user has a users row and the store holds no daily-summary
\* row of the user, a history request the store serves without failure is
\* answered with `days` all-zero records and with the targets of that row.
C8_EmptyWindowKeepsProfileTargets ==
    ( /\ HistoryAnswered
      /\ response.days >= 1
      /\ response.fail = {}
      /\ HistoryUserNumeric
      /\ ProfileRowsOf(HistoryUser) # {}
      /\ \A j \in 1..Len(store.daily_nutrition_summary) :
            store.daily_nutrition_summary[j].user_telegram_id # HistoryUser
      /\ LET row == store.users[CHOOSE i \in ProfileRowsOf(HistoryUser) : TRUE]
         IN  row.calorie_target # <<>> )
    => LET row == store.users[CHOOSE i \in ProfileRowsOf(HistoryUser) : TRUE] IN
       /\ Len(response.last_7_days) = response.days
       /\ \A i \in 1..Len(response.last_7_days) : AllZero(response.last_7_days[i])
       /\ response.daily_targets =
             [calories |-> row.calorie_target[1], protein |-> row.protein_target_g[1],
              carbs |-> row.carbs_target_g[1], fats |-> row.fat_target_g[1]]

\* C9: when the users query fails or the user has no users row, a history
\* request is answered with `days` zero-filled records and the default
\* targets 2000, 150, 250, 65.
C9_StoreFailureGivesDefaultTargets ==
    ( /\ HistoryAnswered
      /\ response.days >= 1
      /\ HistoryUserNumeric
      /\ ("users" \in response.fail \/ ProfileRowsOf(HistoryUser) = {}) )
    => /\ Len(response.last_7_days) = response.days
       /\ \A i \in 1..Len(response.last_7_days) : AllZero(response.last_7_days[i])
       /\ response.daily_targets =
             [calories |-> 2000, protein |-> 150, carbs |-> 250, fats |-> 65]

\* C10: get_user_nutrition_targets returns the targets of the user's users
\* row when the query succeeds and finds one, and the defaults 2000, 150,
\* 250, 65 when the row is missing or the query raises; it returns a value
\* in every case.
C10_TargetsOrDefaults ==
    response.op = "targets" =>
        IF "users" \notin response.fail /\ ProfileRowsOf(response.uid) # {}
        THEN LET row == store.users[CHOOSE i \in ProfileRowsOf(response.uid) : TRUE] IN
             response.result =
                [calorie_target |-> row.calorie_target,
                 protein_target_g |-> row.protein_target_g,
                 fat_target_g |-> row.fat_target_g,
                 carbs_target_g |-> row.carbs_target_g]
        ELSE response.result =
                [calorie_target |-> <<2000>>, protein_target_g |-> <<150>>,
                 fat_target_g |-> <<65>>, carbs_target_g |-> <<250>>]

\* C10 witness: the users query raised for a user who has a users row with
\* other targets, and the defaults were returned.
C10_Witness ==
    /\ response.op = "targets"
    /\ "users" \in response.fail
    /\ ProfileRowsOf(response.uid) # {}
    /\ store.users[CHOOSE i \in ProfileRowsOf(response.uid) : TRUE].calorie_target = <<2500>>
    /\ response.result.calorie_target = <<2000>>

\* Whether the string s is the decimal form of one of the model's user ids.
IsNumericId(s) == \E id \in NumericIds : Str(id) = s

\* The user id the string s denotes.
UserOf(s) == CHOOSE id \in NumericIds : Str(id) = s

\* The typed default targets, in the keys of the handlers' responses.
TypedDefaults == [calories |-> 2000, protein |-> 150, carbs |-> 250, fats |-> 65]

\* C11: when the user has no users row (and no query fails), the dashboard
\* is rendered with the typed default targets 2000, 150, 250, 65 and the
\* history is answered with them: the absent row is not turned into an error.
C11_AbsentProfileUsesDefaults ==
    /\ ( /\ response.op = "dashboard"
         /\ response.status # 400
         /\ response.template
         /\ response.fail = {}
         /\ IsNumericId(response.user_id)
         /\ ProfileRowsOf(UserOf(response.user_id)) = {} )
       => /\ response.status = 200
          /\ response.goals = TypedDefaults
    /\ ( /\ HistoryAnswered
         /\ response.days >= 1
         /\ response.fail = {}
         /\ IsNumericId(response.user_id)
         /\ ProfileRowsOf(UserOf(response.user_id)) = {} )
       => response.daily_targets = TypedDefaults

\* Whether a consumption record has the four totals, all 0.
ZeroTotals(r) ==
    /\ DOMAIN r = {"total_calories", "total_protein_g", "total_carbs_g", "total_fat_g"}
    /\ \A k \in DOMAIN r : r[k] = 0

\* C12: get_nutrition_summary_for_date returns a consumption record in every
\* case, and when a query it issues raises (the daily-summary query, or the
\* raw-log query issued when no summary row was found) the four totals of
\* that record are 0.
C12_SummaryFailsToZeros ==
    response.op = "summary" =>
        /\ DOMAIN response.result =
              {"total_calories", "total_protein_g", "total_carbs_g", "total_fat_g"}
        /\ "daily_nutrition_summary" \in response.fail => ZeroTotals(response.result)
        /\ ( /\ "nutrition_logs" \in response.fail
             /\ SummaryRowsOf(response.uid, response.date) = {} )
           => ZeroTotals(response.result)

\* C12 witness: the raw-log query raised for a user who has logs of the day
\* and no summary row, and the record returned holds zeros.
C12_Witness ==
    /\ response.op = "summary"
    /\ response.fail = {"nutrition_logs"}
    /\ SummaryRowsOf(response.uid, response.date) = {}
    /\ LogsOf(response.uid, response.date) # {}
    /\ ZeroTotals(response.result)

StoredCounter(c) ==
    IF /\ IsNumericId(response.user_id)
       /\ "users" \notin response.fail
       /\ ProfileRowsOf(UserOf(response.user_id)) # {}
    THEN NullAsZero(store.users[CHOOSE i \in ProfileRowsOf(UserOf(response.user_id)) : TRUE][c])
    ELSE 0

\* C14: the streak reader answers every request, and each of the three
\* counters it returns is the stored value when there is one and 0 when the
\* row or that field is missing or NULL, independently of the other two; on
\* a failed query and on a non-numeric user id all three are 0.
C14_StreakCountersDefaultIndependently ==
    response.op = "streak" =>
        /\ response.status = 200
        /\ response.current_streak = StoredCounter("current_streak")
        /\ response.days_since_last_meal_log = StoredCounter("days_since_last_meal_log")
        /\ response.coins = StoredCounter("coins")

\* C14 witness: the row of the user holds a NULL streak beside 3 days and 40
\* coins, and the answer is 0, 3, 40.
C14_Witness ==
    /\ response.op = "streak"
    /\ IsNumericId(response.user_id)
    /\ \E i \in ProfileRowsOf(UserOf(response.user_id)) :
          store.users[i].current_streak = <<>>
    /\ response.current_streak = 0
    /\ response.days_since_last_meal_log = 3
    /\ response.coins = 40

\* Whether a status is a client error.
ClientError(status) == status \in 400..499

\* C15: a request of a data endpoint (dashboard, history, streak) whose user
\* id is no number and is not the demo alias 'user_123' is answered with a
\* client error.
C15_NonNumericUserIdFails ==
    ( /\ response.op \in {"dashboard", "historical", "streak"}
      /\ "user_id" \in DOMAIN response
      /\ ParseInt(response.user_id).raised
      /\ response.user_id # DemoAlias )
    => ClientError(response.status)

\* Whether the days parameter of the history request answered in response is
\* a positive integer (an absent parameter counts as 7).
DaysPositive ==
    LET d == ParseInt(IF response.q_days = <<>> THEN <<"7">> ELSE response.q_days[1])
    IN  ~d.raised /\ d.val >= 1

\* C16: a history request whose days parameter is not a positive integer is
\* answered with a client error.
C16_BadDaysIsClientError ==
    (response.op = "historical" /\ ~DaysPositive) => ClientError(response.status)

\* C17: a dashboard request with a numeric user id, served with the HTML
\* template in place, renders the dashboard whatever the store holds and
\* whichever query fails.
C17_DashboardAlwaysRenders ==
    ( /\ response.op = "dashboard"
      /\ response.status # 400
      /\ IsNumericId(response.user_id)
      /\ response.template )
    => response.status = 200

\* C18: when a query behind the today's-nutrition response fails (that of
\* the users table or that of the daily summaries), the response carries
\* the default targets 2000, 150, 250, 65, consumption 0 for every macro and
\* remaining equal to the targets.
C18_NutritionDegradesToDefaults ==
    ( /\ response.op = "nutrition_api"
      /\ ("users" \in response.fail \/ "daily_nutrition_summary" \in response.fail) )
    => /\ response.status = 200
       /\ response.targets = Dict(2000, 150, 65, 250)
       /\ response.consumed_today = Dict(0, 0, 0, 0)
       /\ response.remaining = response.targets

\* USER_DATA as web_server holds it before any update was served.
FreshUserData == [k \in {DemoAlias} |-> sample_data]

\* C19: the response to a nutrition-data request of web_server is the
\* response the same request gets, on the same store, from a server that has
\* served no request before: it does not depend on earlier update requests.
C19_ResponseIndependentOfHistory ==
    response.op = "web_nutrition" =>
        response.body = api_nutrition_data(FreshUserData, store, response.fail,
                                           response.q_user_id, response.available, today)

\* C20: when the daily-summary query succeeds and finds a row of (user,
\* date), get_nutrition_summary_for_date returns the four totals of that row
\* with NULL as 0 and does not query the raw logs, whatever the raw logs of
\* that date sum to.
C20_SummaryRowTakesPrecedence ==
    ( /\ response.op = "summary"
      /\ "daily_nutrition_summary" \notin response.fail
      /\ SummaryRowsOf(response.uid, response.date) # {} )
    => LET row == store.daily_nutrition_summary[
                      CHOOSE i \in SummaryRowsOf(response.uid, response.date) : TRUE]
       IN  /\ response.result.total_calories = NullAsZero(row.total_calories)
           /\ response.result.total_protein_g = NullAsZero(row.total_protein_g)
           /\ response.result.total_carbs_g = NullAsZero(row.total_carbs_g)
           /\ response.result.total_fat_g = NullAsZero(row.total_fat_g)
           /\ \A i \in 1..Len(response.queries) : response.queries[i] # "nutrition_logs"

\* C20 witness: the summary row of today holds a NULL calories total beside
\* 39 g of protein while the raw logs of today sum to 401 calories, and the
\* call returned 0 and 39 from the single summary query.
C20_Witness ==
    /\ response.op = "summary"
    /\ response.fail = {}
    /\ \E i \in SummaryRowsOf(response.uid, response.date) :
          store.daily_nutrition_summary[i].total_calories = <<>>
    /\ SumOver(LogsOf(response.uid, response.date), store.nutrition_logs,
               "total_calories") = 401
    /\ response.result.total_calories = 0
    /\ response.result.total_protein_g = 39
    /\ response.queries = <<"daily_nutrition_summary">>

\* C21: when the daily-summary query succeeds and finds no row of (user,
\* date), and the raw-log query succeeds, each of the four totals returned is
\* the sum of that field over exactly the user's raw logs stamped from 00:00
\* of the date up to, not including, 00:00 of the next day, a NULL field
\* counting as 0; without such logs every total is 0.
C21_NoSummarySumsRawLogs ==
    ( /\ response.op = "summary"
      /\ "daily_nutrition_summary" \notin response.fail
      /\ "nutrition_logs" \notin response.fail
      /\ SummaryRowsOf(response.uid, response.date) = {} )
    => LET logs == LogsOf(response.uid, response.date) IN
       /\ response.result.total_calories =
             SumOver(logs, store.nutrition_logs, "total_calories")
       /\ response.result.total_protein_g = SumOver(logs, store.nutrition_logs, "protein_g")
       /\ response.result.total_carbs_g = SumOver(logs, store.nutrition_logs, "carbs_g")
       /\ response.result.total_fat_g = SumOver(logs, store.nutrition_logs, "fat_g")
       /\ logs = {} => ZeroTotals(response.result)

\* C21 witness: the user has two logs of the date, one with a NULL protein,
\* and a log stamped 00:00 of the next day; the totals returned are those of
\* the two logs: 39 g of protein, 20 g of fat.
C21_Witness ==
    /\ response.op = "summary"
    /\ response.fail = {}
    /\ SummaryRowsOf(response.uid, response.date) = {}
    /\ \E i \in LogsOf(response.uid, response.date) :
          store.nutrition_logs[i].protein_g = <<>>
    /\ \E i \in 1..Len(store.nutrition_logs) :
          /\ store.nutrition_logs[i].user_telegram_id = response.uid
          /\ store.nutrition_logs[i].logged_at = [date |-> response.date + 1, hour |-> 0]
    /\ response.result.total_protein_g = 39
    /\ response.result.total_fat_g = 20

\* Whether the users row of uid holds four positive targets.
PositiveTargets(uid) ==
    /\ ProfileRowsOf(uid) # {}
    /\ LET row == store.users[CHOOSE i \in ProfileRowsOf(uid) : TRUE] IN
       \A c \in {"calorie_target", "protein_target_g", "fat_target_g", "carbs_target_g"} :
           row[c] # <<>> /\ row[c][1] > 0

\* C22: for a user whose users row holds four positive targets, with every
\* query succeeding, GET /api/nutrition-data of mini_app_server answers with
\* the targets of that row, today's consumption of the store and remaining =
\* max(0, target - consumed) for each macro.
C22_NutritionApiReturnsAggregate ==
    ( /\ response.op = "nutrition_api"
      /\ response.fail = {}
      /\ IsNumericId(response.user_id)
      /\ PositiveTargets(UserOf(response.user_id)) )
    => LET uid == UserOf(response.user_id)
           row == store.users[CHOOSE i \in ProfileRowsOf(uid) : TRUE]
           target == Dict(row.calorie_target[1], row.protein_target_g[1],
                          row.fat_target_g[1], row.carbs_target_g[1])
           consumed == Dict(ConsumedToday(uid, {}, "total_calories", "total_calories"),
                            ConsumedToday(uid, {}, "total_protein_g", "protein_g"),
                            ConsumedToday(uid, {}, "total_fat_g", "fat_g"),
                            ConsumedToday(uid, {}, "total_carbs_g", "carbs_g"))
       IN  /\ response.targets = target
           /\ response.consumed_today = consumed
           /\ \A k \in Keys :
                 response.remaining[k] =
                    IF target[k] > consumed[k] THEN target[k] - consumed[k] ELSE 0

ActualConsumed(uid, fail, m) ==
    CASE m = "calories" -> ConsumedToday(uid, fail, "total_calories", "total_calories")
      [] m = "protein"  -> ConsumedToday(uid, fail, "total_protein_g", "protein_g")
      [] m = "carbs"    -> ConsumedToday(uid, fail, "total_carbs_g", "carbs_g")
      [] OTHER          -> ConsumedToday(uid, fail, "total_fat_g", "fat_g")

\* The macro a key of the JSON dicts stands for.
MacroOfKey(k) ==
    CASE k = "calories" -> "calories" [] k = "protein_g" -> "protein"
      [] k = "carbs_g" -> "carbs" [] OTHER -> "fats"

\* The consumed values of a rendered dashboard: consumed + remaining = goal,
\* 0 <= consumed <= goal, and consumed = goal when today's consumption of the
\* store exceeds the goal.
DashboardConsumedDerived ==
    (response.op = "dashboard" /\ response.status = 200) =>
        \A m \in Macros :
           /\ response.consumed[m] + response.remaining[m] = response.goals[m]
           /\ 0 <= response.consumed[m] /\ response.consumed[m] <= response.goals[m]
           /\ ActualConsumed(UserOf(response.user_id), response.fail, m) > response.goals[m]
                 => response.consumed[m] = response.goals[m]

\* The same of a nutrition-data response; the user's target is that of the
\* users row.
NutritionApiConsumedDerived ==
    response.op = "nutrition_api" =>
        \A k \in Keys :
           /\ response.consumed_today[k] + response.remaining[k] = response.targets[k]
           /\ 0 <= response.consumed_today[k]
           /\ response.consumed_today[k] <= response.targets[k]
           /\ ( /\ response.fail = {}
                /\ IsNumericId(response.user_id)
                /\ PositiveTargets(UserOf(response.user_id))
                /\ ActualConsumed(UserOf(response.user_id), {}, MacroOfKey(k))
                      > response.targets[k] )
              => response.consumed_today[k] = response.targets[k]

\* C24: the consumed value the dashboard and GET /api/nutrition-data report
\* is total - remaining: for every macro consumed + remaining = target and
\* 0 <= consumed <= target, and when today's consumption exceeds the target
\* the consumed value reported is the target.
C24_ReportedConsumedIsTotalMinusRemaining ==
    DashboardConsumedDerived /\ NutritionApiConsumedDerived

\* C25: every entry of USER_DATA satisfies, for each macro its targets name,
\* 0 <= remaining <= target, also an entry written with targets given and
\* consumed_today absent or empty.
C25_RemainingWithinTarget ==
    \A u \in DOMAIN USER_DATA : \A k \in Keys :
        k \in DOMAIN USER_DATA[u].targets =>
            /\ 0 <= USER_DATA[u].remaining[k]
            /\ USER_DATA[u].remaining[k] <= USER_DATA[u].targets[k]

\* C26: a call of update_user_nutrition_data stores its entry under the key
\* str(user_id), the decimal digits of an integer id, and returns the entry
\* it stored; the entries of all other keys are those of before the call,
\* and no other key appears or disappears.
C26_UpdateTouchesOneEntry ==
    /\ []((response.op = "update" /\ ~response.raised) =>
            /\ response.key \in DOMAIN USER_DATA
            /\ response.returned = <<USER_DATA[response.key]>>
            /\ USER_DATA[response.key].user_id = response.key
            /\ response.user_id.type = "int" =>
                  /\ response.key = Str(response.user_id.int)
                  /\ ParseInt(response.key) = [raised |-> FALSE, val |-> response.user_id.int])
    /\ [][response'.op = "update" =>
            /\ DOMAIN USER_DATA \subseteq DOMAIN USER_DATA'
            /\ DOMAIN USER_DATA' \subseteq DOMAIN USER_DATA \cup {response'.key}
            /\ \A k \in DOMAIN USER_DATA :
                  k # response'.key => USER_DATA'[k] = USER_DATA[k]]_vars

\* C26 witness: an update called with the integer 7 wrote the entry of key
\* '7' beside the sample entry of 'user_123', which is as it was loaded.
C26_Witness ==
    /\ response.op = "update"
    /\ ~response.raised
    /\ response.user_id.type = "int"
    /\ response.key = <<"7">>
    /\ DOMAIN USER_DATA = {<<"7">>, DemoAlias}
    /\ USER_DATA[DemoAlias] = sample_data
    /\ USER_DATA[<<"7">>].user_id = <<"7">>

\* A POST /api/update-user-data whose body cannot be processed: no
\* Content-Length header, no JSON, or values the calculation fails on.
Unprocessable(request) ==
    \/ ~request.content_length
    \/ request.body = None
    \/ handle_update_user_data(USER_DATA, request).failed

\* A POST that is not answered with status 200 leaves USER_DATA as it was.
PostFailureKeepsUserData ==
    [][(response'.op = "post" /\ response'.status # 200) => USER_DATA' = USER_DATA]_vars

\* C27: a POST /api/update-user-data whose body cannot be processed is
\* answered with status 400 and the JSON object {'status': 'error', ...}.
C27_UnprocessablePostIsClientError ==
    (/\ response.op = "post"
     /\ response.path = <<"/api/update-user-data">>
     /\ Unprocessable(response.request)) =>
        /\ response.status = 400
        /\ response.body # None
        /\ response.body[1].status = "error"

\* The step wrote the entry of key k: a POST /api/user/k or an update whose
\* entry is keyed k, answered 200.
WroteEntry(k) ==
    /\ response'.op \in {"web_post", "web_update"}
    /\ response'.status = 200
    /\ response'.user_id = k

\* The id has no entry written by a request: it has none at all, or it is
\* 'user_123' holding the sample entry the module was loaded with.
NeverWritten(k) ==
    \/ k \notin DOMAIN USER_DATA
    \/ k = DemoAlias /\ USER_DATA[k] = sample_data

\* C28 (amended): after POST /api/user/{id} with JSON body d the entry of id
\* is d; GET /api/user/{id} returns the entry of id, and the default record
\* when id has no entry; a step that is no POST or update for id leaves the
\* entry of id, or its absence, as it was.  'user_123' holds the sample entry
\* from the start and is no id without an entry.
C28_PostThenGetReturnsBody ==
    /\ []((response.op = "web_post" /\ response.status = 200) =>
            /\ response.user_id \in DOMAIN USER_DATA
            /\ USER_DATA[response.user_id] = response.body[1])
    /\ [](response.op = "web_user" =>
            /\ response.user_id \in DOMAIN USER_DATA =>
                  response.body = USER_DATA[response.user_id]
            /\ response.user_id \notin DOMAIN USER_DATA =>
                  response.body = WebDefaultViews)
    /\ [][\A k \in DOMAIN USER_DATA \cup DOMAIN USER_DATA' \cup WebUserIds :
            ~WroteEntry(k) =>
                /\ k \in DOMAIN USER_DATA <=> k \in DOMAIN USER_DATA'
                /\ k \in DOMAIN USER_DATA => USER_DATA'[k] = USER_DATA[k]]_vars

\* C28 witness: a GET of '7' returned the body a POST had stored for it,
\* while another id holds a different entry written by its own POST.
C28_Witness ==
    /\ response.op = "web_user"
    /\ response.user_id = Str(UserWithRows)
    /\ response.body = WebDefaultViews
    /\ Str(UserWithRows) \in DOMAIN USER_DATA
    /\ WordId \in DOMAIN USER_DATA
    /\ USER_DATA[WordId] # USER_DATA[Str(UserWithRows)]

\* C28 as stated: a GET of an id no request has written returns the fixed
\* default record.
C28_NeverWrittenReturnsDefault ==
    (response.op = "web_user" /\ NeverWritten(response.user_id)) =>
        response.body = WebDefaultViews

\* C29: with its template in place, GET /nutrition-dashboard is rendered
\* for every user id in every reachable state of USER_DATA.
C29_WebDashboardAlwaysRenders ==
    (response.op = "web_dashboard" /\ response.template) =>
        response.page.status = 200

\* C30: every record inject_user_data is invoked with has four nonzero
\* totals, and the invocation computes its four quotients: the request is
\* answered 200.  A request of a user with a zero or missing target has
\* ended before the invocation.
C30_InjectNeverDividesByZero ==
    (response.op = "dashboard" /\ response.status # 400) =>
        /\ response.injected # None =>
              /\ \A m \in Macros : response.injected[1][m].total # 0
              /\ response.status = 200
        /\ (/\ ~ParseInt(response.user_id).raised
            /\ \E i \in DOMAIN store.users :
                  /\ store.users[i].user_id = ParseInt(response.user_id).val
                  /\ Some(0) \in { store.users[i].calorie_target,
                                   store.users[i].protein_target_g,
                                   store.users[i].carbs_target_g,
                                   store.users[i].fat_target_g })
              => response.injected = None

\* C30 witness: inject_user_data was invoked for a page, with four positive
\* totals, and the calories quotient was taken over the total it was given.
C30_Witness ==
    /\ response.op = "dashboard"
    /\ response.status = 200
    /\ response.injected # None
    /\ \A m \in Macros : response.injected[1][m].total > 0
    /\ response.progress["calories"][2] = response.injected[1]["calories"].total

====
